---- MODULE Spec2Model ----
(***************************************************************************)
(* Model of sebak's transaction operation package                          *)
(* (lib/transaction/operation): the operation type registry, the           *)
(* NewOperation factory and the two-phase JSON envelope codec.             *)
(*                                                                         *)
(* JSON texts are modelled by their structure: a document is malformed,    *)
(* the literal null, another non-object value, or an object whose H and B  *)
(* members are each absent, null, a non-object value or an object.  An     *)
(* object B carries the field layout of one payload variant (kind) and     *)
(* its data (amount).                                                      *)
(***************************************************************************)
EXTENDS Naturals, FiniteSets, Sequences, TLC

VARIABLES o, before, uses, last, argBody, argDoc, argTag, argRaw,
          err, ret, retBody, wire, phase, attempts

vars == <<o, before, uses, last, argBody, argDoc, argTag, argRaw,
          err, ret, retBody, wire, phase, attempts>>

(* ------------------------------ bounds -------------------------------- *)

\* how many times one target Operation is reused for UnmarshalJSON
MaxDecodes == 1

(* ----------------------- operation type constants ---------------------- *)

TypeCreateAccount == "create-account"
TypePayment == "payment"
TypeCongressVoting == "congress-voting"
TypeCongressVotingResult == "congress-voting-result"
TypeCollectTxFee == "collect-tx-fee"
TypeInflation == "inflation"
TypeUnfreezingRequest == "unfreezing-request"
TypeInflationPF == "inflation-pf"

\* the array literal handed to InStringArray by IsValidOperationType
OperationTypeList ==
    << TypeCreateAccount, TypePayment, TypeCongressVoting,
       TypeCongressVotingResult, TypeCollectTxFee, TypeInflation,
       TypeUnfreezingRequest, TypeInflationPF >>

\* tag strings tried as inputs: the eight tags, the empty string, a case
\* variant and an unrelated string
TagStrings ==
    { OperationTypeList[i] : i \in 1..Len(OperationTypeList) }
        \cup { "", "Payment", "bogus" }

\* strings.ToLower on the strings tried
ToLower(s) == IF s = "Payment" THEN "payment" ELSE s

(* ------------------------------- errors -------------------------------- *)

NoError == "nil"
UnknownOperationType == "UnknownOperationType"
InvalidOperation == "InvalidOperation"
\* encoding/json's errors
SyntaxError == "json.SyntaxError"
UnmarshalTypeError == "json.UnmarshalTypeError"

(* ---------------------------- type registry ---------------------------- *)

\* common.InStringArray: whether some element of a equals s exactly (only
\* the found result is used by this package)
InStringArray(a, s) ==
    LET hits == { i \in 1..Len(a) : a[i] = s }
    IN  [ found |-> hits # {} ]

IsValidOperationType_Fold(oType) ==
    InStringArray(OperationTypeList, ToLower(oType)).found

IsValidOperationType_Short(oType) ==
    InStringArray(SubSeq(OperationTypeList, 1, 7), oType).found

IsValidOperationType(oType) ==
    InStringArray(OperationTypeList, oType).found

IsNormalOperation_All(t) ==
    t \in { TypeCreateAccount, TypePayment, TypeCongressVoting,
            TypeCongressVotingResult, TypeUnfreezingRequest, TypeInflationPF,
            TypeInflation }

IsNormalOperation(t) ==
    IF t \in { TypeCreateAccount, TypePayment, TypeCongressVoting,
               TypeCongressVotingResult, TypeUnfreezingRequest,
               TypeInflationPF }
    THEN TRUE
    ELSE FALSE

(* ------------------------------ payloads ------------------------------- *)

\* the concrete Body types named by NewOperation's type switch
BodyTypes ==
    { "CreateAccount", "Payment", "CollectTxFee", "Inflation",
      "UnfreezeRequest", "CongressVoting", "CongressVotingResult",
      "InflationPF" }

\* a Body implementation outside the type switch
OtherBodyType == "OtherBody"

\* payload data tried: a zero amount (which a payload's IsWellFormed would
\* reject) and a positive one
Amounts == {0, 100}

\* a nil Body interface value
NilBody == [ kind |-> "nil", amount |-> 0 ]

\* payload values a caller can hand to NewOperation
Payloads == [ kind : BodyTypes \cup {OtherBodyType}, amount : Amounts ]

Header(t) == [ Type |-> t ]

Operation(h, b) == [ H |-> h, B |-> b ]

\* var op Operation
ZeroOperation == Operation(Header(""), NilBody)

(* --------------------------- operation factory ------------------------- *)

\* the type switch of NewOperation; "" when no case matches
TypeOfBody(opb) ==
    CASE opb.kind = "CreateAccount" -> TypeCreateAccount
      [] opb.kind = "Payment" -> TypePayment
      [] opb.kind = "CollectTxFee" -> TypeCollectTxFee
      [] opb.kind = "Inflation" -> TypeInflation
      [] opb.kind = "UnfreezeRequest" -> TypeUnfreezingRequest
      [] opb.kind = "CongressVoting" -> TypeCongressVoting
      [] opb.kind = "CongressVotingResult" -> TypeCongressVotingResult
      [] opb.kind = "InflationPF" -> TypeInflationPF
      [] OTHER -> ""

\* two arms of the type switch exchanged
NewOperation_Swapped(opb) ==
    IF opb.kind \notin BodyTypes
    THEN [ op |-> ZeroOperation, err |-> UnknownOperationType ]
    ELSE [ op |-> Operation(
                    Header(CASE opb.kind = "CongressVoting" ->
                                    TypeCongressVotingResult
                             [] opb.kind = "CongressVotingResult" ->
                                    TypeCongressVoting
                             [] OTHER -> TypeOfBody(opb)),
                    opb),
           err |-> NoError ]

\* the default arm sets err but falls through to the construction
NewOperation_Fallthrough(opb) ==
    [ op |-> Operation(Header(TypeOfBody(opb)), opb),
      err |-> IF opb.kind \in BodyTypes THEN NoError
              ELSE UnknownOperationType ]

NewOperation(opb) ==
    IF opb.kind \notin BodyTypes
    THEN \* default: err = errors.UnknownOperationType; return (op is zero)
         [ op |-> ZeroOperation, err |-> UnknownOperationType ]
    ELSE [ op |-> Operation(Header(TypeOfBody(opb)), opb), err |-> NoError ]

(* ------------------------------ JSON texts ----------------------------- *)

NoMember == [ form |-> "absent", kind |-> "", amount |-> 0 ]

\* JSON values that can stand at the B key (or be passed as body bytes)
BValues ==
    [ form : {"absent", "null", "scalar"}, kind : {""}, amount : {0} ]
        \cup [ form : {"object"}, kind : BodyTypes \cup {OtherBodyType},
               amount : Amounts ]

NoType == [ form |-> "absent", s |-> "" ]

\* JSON values that can stand at the "type" key of H
TypeValues ==
    [ form : {"absent", "null", "number"}, s : {""} ]
        \cup [ form : {"string"}, s : TagStrings ]

\* JSON values that can stand at the H key
HValues ==
    [ form : {"absent", "null", "scalar"}, type : {NoType} ]
        \cup [ form : {"object"}, type : TypeValues ]

NoH == [ form |-> "absent", type |-> NoType ]

\* input texts: malformed JSON, null, another non-object value, or an object
Docs ==
    [ form : {"malformed", "null", "scalar"}, H : {NoH}, B : {NoMember} ]
        \cup [ form : {"object"}, H : HValues, B : BValues ]

NoDoc == [ form |-> "none", H |-> NoH, B |-> NoMember ]

\* json.RawMessage contents
EmptyRaw == [ form |-> "empty", kind |-> "", amount |-> 0 ]

\* byte slices handed to UnmarshalBodyJSON
RawValues ==
    [ form : {"empty", "malformed", "scalar"}, kind : {""}, amount : {0} ]
        \cup [ form : {"object"}, kind : BodyTypes \cup {OtherBodyType},
               amount : Amounts ]

(* ---------------------------- envelope codec --------------------------- *)

\* json.Marshal of a Body value: the payload's own field layout, or null
\* for a nil Body
jsonMarshalBody(b) ==
    IF b.kind = "nil"
    THEN [ form |-> "null", kind |-> "", amount |-> 0 ]
    ELSE [ form |-> "object", kind |-> b.kind, amount |-> b.amount ]

\* json.Marshal of an Operation: struct fields H (Header, key "type") and B
MarshalJSON(op) ==
    [ form |-> "object",
      H |-> [ form |-> "object",
              type |-> [ form |-> "string", s |-> op.H.Type ] ],
      B |-> jsonMarshalBody(op.B) ]

\* json.Unmarshal(b, &oj) with oj = envelop{B: &raw}: absent and null
\* members leave the zero value, a member of the wrong JSON type is an
\* UnmarshalTypeError, text that is not JSON is a SyntaxError
jsonUnmarshalEnvelop(doc) ==
    LET zero == [ err |-> NoError, H |-> Header(""), raw |-> EmptyRaw ]
        typeErr == [ zero EXCEPT !.err = UnmarshalTypeError ]
    IN  CASE doc.form = "malformed" -> [ zero EXCEPT !.err = SyntaxError ]
          [] doc.form = "null" -> zero
          [] doc.form = "scalar" -> typeErr
          [] OTHER ->
             IF \/ doc.H.form = "scalar"
                \/ doc.H.form = "object" /\ doc.H.type.form = "number"
             THEN typeErr
             ELSE [ err |-> NoError,
                    H |-> IF doc.H.form = "object"
                             /\ doc.H.type.form = "string"
                          THEN Header(doc.H.type.s)
                          ELSE Header(""),
                    raw |-> IF doc.B.form \in {"scalar", "object"}
                            THEN doc.B
                            ELSE EmptyRaw ]

\* json.Unmarshal(b, &ob) for ob of the concrete payload type typ: fails on
\* empty or malformed bytes and on a value that has not typ's shape
jsonUnmarshalBody(typ, b) ==
    CASE b.form \in {"empty", "malformed"} ->
             [ err |-> SyntaxError, ob |-> NilBody ]
      [] b.form = "object" /\ b.kind = typ ->
             [ err |-> NoError, ob |-> [ kind |-> typ, amount |-> b.amount ] ]
      [] OTHER -> [ err |-> UnmarshalTypeError, ob |-> NilBody ]

\* the concrete type declared (var ob ...) in each arm of UnmarshalBodyJSON
BodyTypeOfArm(t) ==
    CASE t = TypeCreateAccount -> "CreateAccount"
      [] t = TypePayment -> "Payment"
      [] t = TypeCongressVoting -> "CongressVoting"
      [] t = TypeCongressVotingResult -> "CongressVotingResult"
      [] t = TypeCollectTxFee -> "CollectTxFee"
      [] t = TypeInflation -> "Inflation"
      [] t = TypeUnfreezingRequest -> "UnfreezeRequest"
      [] t = TypeInflationPF -> "InflationPF"
      [] OTHER -> "none"

\* one arm of the switch: decode, return the error or the decoded body
DecodeArm(typ, b) ==
    LET r == jsonUnmarshalBody(typ, b)
    IN  IF r.err # NoError
        THEN [ body |-> NilBody, err |-> r.err, attempts |-> 1 ]
        ELSE [ body |-> r.ob, err |-> NoError, attempts |-> 1 ]

\* the congress-voting arms declare each other's payload type
UnmarshalBodyJSON_Crossed(t, b) ==
    CASE t = TypeCongressVoting -> DecodeArm("CongressVotingResult", b)
      [] t = TypeCongressVotingResult -> DecodeArm("CongressVoting", b)
      [] BodyTypeOfArm(t) # "none" -> DecodeArm(BodyTypeOfArm(t), b)
      [] OTHER -> [ body |-> NilBody, err |-> InvalidOperation,
                    attempts |-> 0 ]

\* the default arm tries the payment decoder before giving up
UnmarshalBodyJSON_TryDefault(t, b) ==
    IF BodyTypeOfArm(t) # "none"
    THEN DecodeArm(BodyTypeOfArm(t), b)
    ELSE LET r == DecodeArm("Payment", b)
         IN  IF r.err = NoError THEN r
             ELSE [ r EXCEPT !.err = InvalidOperation ]

\* a failed body decode is reported as errors.InvalidOperation
UnmarshalBodyJSON_Masked(t, b) ==
    IF BodyTypeOfArm(t) # "none"
    THEN LET r == DecodeArm(BodyTypeOfArm(t), b)
         IN  IF r.err = NoError THEN r
             ELSE [ r EXCEPT !.err = InvalidOperation ]
    ELSE [ body |-> NilBody, err |-> InvalidOperation, attempts |-> 0 ]

UnmarshalBodyJSON(t, b) ==
    IF BodyTypeOfArm(t) # "none"
    THEN DecodeArm(BodyTypeOfArm(t), b)
    ELSE \* default: err = errors.InvalidOperation
         [ body |-> NilBody, err |-> InvalidOperation, attempts |-> 0 ]

\* the envelope error is dropped and the dispatch runs on the zero envelope
UnmarshalJSON_NoEnvelopeCheck(op, doc) ==
    LET oj == jsonUnmarshalEnvelop(doc)
        r == UnmarshalBodyJSON(oj.H.Type, oj.raw)
    IN  IF r.err # NoError
        THEN [ op |-> [ op EXCEPT !.H = oj.H ], err |-> r.err,
               phase |-> "dispatch", attempts |-> r.attempts ]
        ELSE [ op |-> Operation(oj.H, r.body), err |-> NoError,
               phase |-> "done", attempts |-> r.attempts ]

\* (o *Operation) UnmarshalJSON(b): op is *o before the call; the result
\* holds *o after it, the error, the phase the call ended in and the
\* number of typed body decodes it made
UnmarshalJSON(op, doc) ==
    LET oj == jsonUnmarshalEnvelop(doc)
    IN  IF oj.err # NoError
        THEN [ op |-> op, err |-> oj.err, phase |-> "envelope",
               attempts |-> 0 ]
        ELSE LET \* o.H = oj.H
                 op1 == [ op EXCEPT !.H = oj.H ]
                 r == UnmarshalBodyJSON(oj.H.Type, oj.raw)
             IN  IF r.err # NoError
                 THEN [ op |-> op1, err |-> r.err, phase |-> "dispatch",
                        attempts |-> r.attempts ]
                 ELSE \* o.B = body
                      [ op |-> [ op1 EXCEPT !.B = r.body ], err |-> NoError,
                        phase |-> "done", attempts |-> r.attempts ]

(* ------------------------------ behaviour ------------------------------ *)

\* o is the caller's Operation variable; the other variables record the last
\* call: its name, its arguments and its results.  before is *o as it was
\* when the last UnmarshalJSON started (o itself after any other call).

Init ==
    /\ o = ZeroOperation
    /\ before = ZeroOperation
    /\ uses = 0
    /\ last = "none"
    /\ argBody = NilBody
    /\ argDoc = NoDoc
    /\ argTag = ""
    /\ argRaw = EmptyRaw
    /\ err = NoError
    /\ ret = FALSE
    /\ retBody = NilBody
    /\ wire = NoDoc
    /\ phase = "none"
    /\ attempts = 0

\* o, err = NewOperation(opb)
CallNewOperation(opb) ==
    LET r == NewOperation(opb)
    IN  /\ last' = "NewOperation"
        /\ before' = r.op
        /\ o' = r.op
        /\ err' = r.err
        /\ uses' = 0
        /\ argBody' = opb
        /\ argDoc' = NoDoc
        /\ argTag' = ""
        /\ argRaw' = EmptyRaw
        /\ ret' = FALSE
        /\ retBody' = NilBody
        /\ wire' = NoDoc
        /\ phase' = "none"
        /\ attempts' = 0

\* err = o.UnmarshalJSON(doc)
CallUnmarshalJSON(doc) ==
    LET r == UnmarshalJSON(o, doc)
    IN  /\ uses < MaxDecodes
        /\ last' = "UnmarshalJSON"
        /\ before' = o
        /\ o' = r.op
        /\ err' = r.err
        /\ uses' = uses + 1
        /\ argBody' = NilBody
        /\ argDoc' = doc
        /\ argTag' = ""
        /\ argRaw' = EmptyRaw
        /\ ret' = FALSE
        /\ retBody' = NilBody
        /\ wire' = NoDoc
        /\ phase' = r.phase
        /\ attempts' = r.attempts

\* wire, _ = json.Marshal(o)
CallMarshalJSON ==
    /\ last' = "MarshalJSON"
    /\ before' = o
    /\ wire' = MarshalJSON(o)
    /\ err' = NoError
    /\ argBody' = NilBody
    /\ argDoc' = NoDoc
    /\ argTag' = ""
    /\ argRaw' = EmptyRaw
    /\ ret' = FALSE
    /\ retBody' = NilBody
    /\ phase' = "none"
    /\ attempts' = 0
    /\ UNCHANGED <<o, uses>>

\* ret = IsValidOperationType(s)
CallIsValidOperationType(s) ==
    /\ last' = "IsValidOperationType"
    /\ before' = o
    /\ argTag' = s
    /\ ret' = IsValidOperationType(s)
    /\ err' = NoError
    /\ argBody' = NilBody
    /\ argDoc' = NoDoc
    /\ argRaw' = EmptyRaw
    /\ retBody' = NilBody
    /\ wire' = NoDoc
    /\ phase' = "none"
    /\ attempts' = 0
    /\ UNCHANGED <<o, uses>>

\* ret = IsNormalOperation(t)
CallIsNormalOperation(t) ==
    /\ last' = "IsNormalOperation"
    /\ before' = o
    /\ argTag' = t
    /\ ret' = IsNormalOperation(t)
    /\ err' = NoError
    /\ argBody' = NilBody
    /\ argDoc' = NoDoc
    /\ argRaw' = EmptyRaw
    /\ retBody' = NilBody
    /\ wire' = NoDoc
    /\ phase' = "none"
    /\ attempts' = 0
    /\ UNCHANGED <<o, uses>>

\* retBody, err = UnmarshalBodyJSON(t, b)
CallUnmarshalBodyJSON(t, b) ==
    LET r == UnmarshalBodyJSON(t, b)
    IN  /\ last' = "UnmarshalBodyJSON"
        /\ before' = o
        /\ argTag' = t
        /\ argRaw' = b
        /\ retBody' = r.body
        /\ err' = r.err
        /\ attempts' = r.attempts
        /\ argBody' = NilBody
        /\ argDoc' = NoDoc
        /\ ret' = FALSE
        /\ wire' = NoDoc
        /\ phase' = "none"
        /\ UNCHANGED <<o, uses>>

\* the factory and the codec acting on the caller's Operation
Next ==
    \/ \E opb \in Payloads : CallNewOperation(opb)
    \/ \E doc \in Docs : CallUnmarshalJSON(doc)
    \/ CallMarshalJSON

Spec == Init /\ [][Next]_vars

\* the registry, the factory and the body dispatch called as functions
NextFunctions ==
    \/ \E opb \in Payloads : CallNewOperation(opb)
    \/ \E s \in TagStrings : CallIsValidOperationType(s)
    \/ \E t \in TagStrings : CallIsNormalOperation(t)
    \/ \E t \in TagStrings : \E b \in RawValues : CallUnmarshalBodyJSON(t, b)

SpecFunctions == Init /\ [][NextFunctions]_vars

(* ------------------------------ properties ----------------------------- *)

\* the variant <-> tag correspondence as the specification states it
Correspondence ==
    { <<"CreateAccount", "create-account">>,
      <<"Payment", "payment">>,
      <<"CongressVoting", "congress-voting">>,
      <<"CongressVotingResult", "congress-voting-result">>,
      <<"CollectTxFee", "collect-tx-fee">>,
      <<"Inflation", "inflation">>,
      <<"UnfreezeRequest", "unfreezing-request">>,
      <<"InflationPF", "inflation-pf">> }

RegisteredVariants == { p[1] : p \in Correspondence }

CanonicalTags == { p[2] : p \in Correspondence }

DecodeErrors == { SyntaxError, UnmarshalTypeError }

\* the last call was UnmarshalJSON on an envelope whose H.type is a string
DecodedEnvelope ==
    /\ last = "UnmarshalJSON"
    /\ argDoc.form = "object"
    /\ argDoc.H.form = "object"
    /\ argDoc.H.type.form = "string"

\* C1: after a successful NewOperation or UnmarshalJSON the header type of
\* the Operation is the tag that the correspondence gives to the concrete
\* variant of its body.
C1_HeaderMatchesBody ==
    (last \in {"NewOperation", "UnmarshalJSON"} /\ err = NoError)
        => <<o.B.kind, o.H.Type>> \in Correspondence

\* an unfreezing request decoded into an Operation that held a payment
C1_Witness ==
    /\ last = "UnmarshalJSON"
    /\ err = NoError
    /\ before.B.kind = "Payment"
    /\ o.B.kind = "UnfreezeRequest"
    /\ o.H.Type = "unfreezing-request"

\* C2: round trip: decoding the encoding of NewOperation(b), for b of any
\* of the eight registered variants, succeeds and leaves an Operation equal
\* to NewOperation(b), whatever the target held before.
C2_RoundTrip ==
    \A b \in Payloads :
        (/\ b.kind \in RegisteredVariants
         /\ last = "UnmarshalJSON"
         /\ argDoc = MarshalJSON(NewOperation(b).op))
            => (err = NoError /\ o = NewOperation(b).op)

\* the encoding of a payment of 100 decoded into an Operation that held
\* something else
C2_Witness ==
    /\ last = "UnmarshalJSON"
    /\ argDoc = MarshalJSON(NewOperation([kind |-> "Payment",
                                          amount |-> 100]).op)
    /\ before.B.kind = "Inflation"
    /\ err = NoError
    /\ o.H.Type = "payment"
    /\ o.B = [kind |-> "Payment", amount |-> 100]

\* C3: a decode that returns an error leaves the target Operation's header
\* and body as they were before the call.
C3_FailedDecodeLeavesTarget ==
    (last = "UnmarshalJSON" /\ err # NoError) => o = before

\* C4: decoding an envelope whose H.type is a string outside the eight tags
\* fails with InvalidOperation without any typed decode of B, whatever B is.
C4_UnknownTagNoBodyDecode ==
    (DecodedEnvelope /\ argDoc.H.type.s \notin CanonicalTags)
        => /\ err = InvalidOperation
           /\ phase = "dispatch"
           /\ attempts = 0
           /\ o.B = before.B

\* a case variant of a tag with a well-shaped payment body
C4_Witness ==
    /\ DecodedEnvelope
    /\ argDoc.H.type.s = "Payment"
    /\ argDoc.B.form = "object"
    /\ argDoc.B.kind = "Payment"
    /\ err = InvalidOperation
    /\ attempts = 0

\* C5 (as stated): an input that is not an object, or an object without an
\* H key, fails with a parse error raised in the envelope phase, and the
\* dispatch phase is not reached.
C5_StructuralEnvelopeFailure ==
    (/\ last = "UnmarshalJSON"
     /\ \/ argDoc.form # "object"
        \/ argDoc.H.form = "absent")
        => (err \in DecodeErrors /\ phase = "envelope" /\ attempts = 0)

\* C5 (amended): an input that is not JSON, or a JSON value other than an
\* object or null, fails with a parse error raised in the envelope phase,
\* the dispatch phase is not reached and the target is untouched; an object
\* without an H key, and the JSON null, pass the envelope phase with the
\* empty tag and fail in the dispatch phase with InvalidOperation, with no
\* typed body decode.
C5_EnvelopeFailureAmended ==
    last = "UnmarshalJSON" =>
        /\ argDoc.form \in {"malformed", "scalar"}
               => /\ err \in DecodeErrors
                  /\ phase = "envelope"
                  /\ attempts = 0
                  /\ o = before
        /\ (\/ argDoc.form = "null"
            \/ argDoc.form = "object" /\ argDoc.H.form = "absent")
               => /\ err = InvalidOperation
                  /\ phase = "dispatch"
                  /\ attempts = 0

\* an object with a well-shaped B and no H
C5_Witness ==
    /\ last = "UnmarshalJSON"
    /\ argDoc.form = "object"
    /\ argDoc.H.form = "absent"
    /\ argDoc.B.form = "object"
    /\ err = InvalidOperation
    /\ phase = "dispatch"

\* C6: NewOperation on a payload outside the eight registered variants
\* fails with UnknownOperationType and returns the empty Operation; on a
\* payload of a registered variant it succeeds and returns the payload
\* unchanged as the body, whatever its field values.
C6_NewOperation ==
    last = "NewOperation" =>
        IF argBody.kind \in RegisteredVariants
        THEN err = NoError /\ o.B = argBody
        ELSE err = UnknownOperationType /\ o = ZeroOperation

\* an unregistered payload handed to NewOperation
C6_Witness ==
    /\ last = "NewOperation"
    /\ argBody.kind = OtherBodyType
    /\ argBody.amount = 100
    /\ err = UnknownOperationType
    /\ o = ZeroOperation

\* C7: IsValidOperationType(tag) is true exactly when tag is one of the
\* eight canonical strings, compared as written.
C7_IsValidOperationType ==
    last = "IsValidOperationType" =>
        (ret <=> argTag \in { "create-account", "payment", "congress-voting",
                              "congress-voting-result", "collect-tx-fee",
                              "inflation", "unfreezing-request",
                              "inflation-pf" })

\* a case variant of a tag is rejected
C7_Witness ==
    /\ last = "IsValidOperationType"
    /\ argTag = "Payment"
    /\ ret = FALSE

\* C8: IsNormalOperation is true for exactly the six user-submitted tags,
\* false for collect-tx-fee, inflation and every string outside the eight
\* tags; so it implies IsValidOperationType.
C8_IsNormalOperation ==
    last = "IsNormalOperation" =>
        /\ ret <=> argTag \in { "create-account", "payment",
                                "congress-voting", "congress-voting-result",
                                "unfreezing-request", "inflation-pf" }
        /\ argTag \in {"collect-tx-fee", "inflation"} => ~ret
        /\ argTag \notin CanonicalTags => ~ret
        /\ ret => IsValidOperationType(argTag)

\* a system-generated tag is not normal
C8_Witness ==
    /\ last = "IsNormalOperation"
    /\ argTag = "inflation"
    /\ ret = FALSE

\* C9: decoding an envelope whose H.type is one of the eight tags and whose
\* B has not the shape of that tag's variant (B absent included) fails with
\* a decode error from the body decode step: never InvalidOperation, never
\* a body of another variant.
C9_BodyShapeMismatch ==
    (/\ DecodedEnvelope
     /\ argDoc.H.type.s \in CanonicalTags
     /\ ~(/\ argDoc.B.form = "object"
          /\ <<argDoc.B.kind, argDoc.H.type.s>> \in Correspondence))
        => /\ err \in DecodeErrors
           /\ phase = "dispatch"
           /\ attempts = 1
           /\ o.B = before.B

\* a registered tag with no B member, decoded into a held Operation
C9_Witness ==
    /\ DecodedEnvelope
    /\ argDoc.H.type.s = "inflation"
    /\ argDoc.B.form = "absent"
    /\ before.B.kind = "Payment"
    /\ err = SyntaxError

\* C10: the three tables agree: UnmarshalBodyJSON(t, _) returns
\* InvalidOperation exactly when IsValidOperationType(t) is false, and the
\* header tags NewOperation produces are exactly the tags
\* IsValidOperationType accepts.
C10_TablesAgree ==
    /\ last = "UnmarshalBodyJSON"
           => (err = InvalidOperation <=> ~IsValidOperationType(argTag))
    /\ (last = "NewOperation" /\ err = NoError)
           => IsValidOperationType(o.H.Type)
    /\ \A t \in TagStrings :
           IsValidOperationType(t)
               => \E b \in Payloads :
                      /\ NewOperation(b).err = NoError
                      /\ NewOperation(b).op.H.Type = t

\* the tag added last, dispatched on bytes that are not JSON
C10_Witness ==
    /\ last = "UnmarshalBodyJSON"
    /\ argTag = "inflation-pf"
    /\ argRaw.form = "malformed"
    /\ err = SyntaxError
    /\ attempts = 1

====
